---- MODULE Spec2Model ----
(***************************************************************************)
(* Model of zeustools' output.py: the comparison of two ZEUS-MP HDF5       *)
(* outputs (compare_output / compare_two), the two comparators             *)
(* (assert_equality, assert_near_equality) and DifferenceError.showall.    *)
(*                                                                         *)
(* Floating-point numbers are modelled by small integers plus one          *)
(* not-a-number code (NaN).  A relative tolerance or a relative error is a *)
(* fraction <<n, d>> of naturals: <<n, 0>> with n > 0 is +inf and <<0, 0>> *)
(* is nan, which is what numpy's division produces for x/0 and 0/0.        *)
(* An array is a function from index tuples (0-based, <<k, j, i>> for the  *)
(* fields, <<i>> for the coordinates) to numbers.                          *)
(***************************************************************************)
EXTENDS Integers, Sequences, FiniteSets, TLC

\* ------------------------------------------------------------------ bounds
MaxVal == 2
NPairs == 2
MaxN == 2
NI == 2
NJ == 2
NK == 1

\* ------------------------------------------------------------ number model
NaN == 4 * MaxVal + 4

Abs(x) == IF x < 0 THEN 0 - x ELSE x

RECURSIVE GCD(_, _)
GCD(m, n) == IF n = 0 THEN m ELSE GCD(n, m % n)

\* a fraction in lowest terms; <<0,0>> (nan) and <<1,0>> (inf) are kept
Norm(f) ==
    LET g == GCD(f[1], f[2])
    IN  IF g = 0 THEN <<0, 0>> ELSE <<f[1] \div g, f[2] \div g>>

FNaN == <<0, 0>>

\* f > g for fractions, with IEEE rules: any comparison with nan is false
FracGT(f, g) ==
    IF f = FNaN \/ g = FNaN THEN FALSE
    ELSE IF f[2] = 0 THEN g[2] # 0
    ELSE IF g[2] = 0 THEN FALSE
    ELSE f[1] * g[2] > g[1] * f[2]

\* index tuples of a 3-d array of the given shape (k, j, i)
Locs3(nk, nj, ni) ==
    {<<k, j, i>> : k \in 0..(nk - 1), j \in 0..(nj - 1), i \in 0..(ni - 1)}

\* index tuples of a 1-d array of n elements
Locs1(n) == {<<i>> : i \in 0..(n - 1)}

RECURSIVE LexLT(_, _)
LexLT(x, y) ==
    IF x = <<>> \/ y = <<>> THEN FALSE
    ELSE IF Head(x) # Head(y) THEN Head(x) < Head(y)
    ELSE LexLT(Tail(x), Tail(y))

\* the index tuples of S in row-major (C) order, the order numpy scans in
RECURSIVE RowMajor(_)
RowMajor(S) ==
    IF S = {} THEN <<>>
    ELSE LET m == CHOOSE x \in S : \A y \in S : ~LexLT(y, x)
         IN  <<m>> \o RowMajor(S \ {m})

\* the grid of the field arrays, and its cells in row-major order
Grid == Locs3(NK, NJ, NI)

GridSeq == RowMajor(Grid)

ScanOrder(S) == IF S = Grid THEN GridSeq ELSE RowMajor(S)

\* ------------------------------------------------------------------- numpy
\* np.abs(a - b), element-wise
NpAbsDiff(a, b) ==
    [l \in DOMAIN a |->
        IF a[l] = NaN \/ b[l] = NaN THEN NaN ELSE Abs(a[l] - b[l])]

\* np.abs(a - b) / np.abs(a + b), element-wise
NpRelErr(a, b) ==
    [l \in DOMAIN a |->
        IF a[l] = NaN \/ b[l] = NaN THEN FNaN
        ELSE Norm(<<Abs(a[l] - b[l]), Abs(a[l] + b[l])>>)]

\* aerr.nonzero(): the indices of the non-zero elements (nan is non-zero)
NpNonzero(x) == SelectSeq(ScanOrder(DOMAIN x), LAMBDA l : x[l] # 0)

\* np.array_equal(a, b): same shape and a == b everywhere (nan == nan is false)
NpArrayEqual(a, b) ==
    /\ DOMAIN a = DOMAIN b
    /\ \A l \in DOMAIN a : a[l] # NaN /\ b[l] # NaN /\ a[l] = b[l]

\* an isclose with a strict inequality
IsCloseStrict(x, y, rt, at) ==
    /\ x # NaN
    /\ y # NaN
    /\ rt[2] * Abs(x - y) < rt[2] * at + rt[1] * Abs(y)

\* one element of np.isclose(x, y): |x - y| <= atol + rtol * |y|
IsClose(x, y, rt, at) ==
    /\ x # NaN
    /\ y # NaN
    /\ rt[2] * Abs(x - y) <= rt[2] * at + rt[1] * Abs(y)

\* np.allclose(a, b, rtol, atol)
NpAllClose(a, b, rt, at) == \A l \in DOMAIN a : IsClose(a[l], b[l], rt, at)

\* rerr.max(): nan if any element is nan, else the largest element
NpMax(r) ==
    IF \E l \in DOMAIN r : r[l] = FNaN THEN FNaN
    ELSE CHOOSE m \in {r[l] : l \in DOMAIN r} :
            \A l \in DOMAIN r : ~FracGT(r[l], m)


\* --------------------------------------------------------------- output.py
NoExc == [type |-> "None"]

\* DifferenceError(var, rerr, aerr, locs, rtol)
DifferenceError(var, rerr, aerr, locs, rt) ==
    [type |-> "DifferenceError", var |-> var, rerr |-> rerr, aerr |-> aerr,
     locs |-> locs, rtol |-> rt]

\* ComparisonError(var, value1, value2)
ComparisonError(var, value1, value2) ==
    [type |-> "ComparisonError", var |-> var, value1 |-> value1,
     value2 |-> value2]

\* the line showall prints for the location l = <<k, j, i>>; the numbers are
\* kept as they are, their rounding to 8.2E is not modelled
LocLine(de, l) ==
    [kind |-> "Loc", i |-> l[3], j |-> l[2], k |-> l[1],
     rerr |-> de.rerr[l], aerr |-> de.aerr[l]]

\* a skip test that takes the location as (i, j, k) instead of (k, j, i)
SkippedSwapped(l, iskip, jskip, kskip) ==
    (l[1] \in iskip) \/ (l[2] \in jskip) \/ (l[3] \in kskip)

\* (i in iskip) or (j in jskip) or (k in kskip)
Skipped(l, iskip, jskip, kskip) ==
    (l[3] \in iskip) \/ (l[2] \in jskip) \/ (l[1] \in kskip)

\* a showall without the threshold on the relative error
ExceedsAlways(de, l) == TRUE

\* self.rerr[k,j,i] > self.rtol
Exceeds(de, l) == FracGT(de.rerr[l], de.rtol)

\* DifferenceError.showall: the lines it prints, in order
showall(de, iskip, jskip, kskip) ==
    LET shown == SelectSeq(de.locs,
                     LAMBDA l : ~Skipped(l, iskip, jskip, kskip) /\ Exceeds(de, l))
    IN  [n \in 1..Len(shown) |-> LocLine(de, shown[n])]

\* a verdict that tests one direction only
NearVerdictOneWay(a, b, rt, at) == NpAllClose(a, b, rt, at)

\* the verdict of assert_near_equality: both directions of allclose
NearVerdict(a, b, rt, at) ==
    LET c1 == NpAllClose(a, b, rt, at)
        c2 == NpAllClose(b, a, rt, at)
    IN  c1 /\ c2

\* assert_near_equality: the exception it raises, NoExc when it returns
assert_near_equality(a, b, rt, at) ==
    IF ~NearVerdict(a, b, rt, at)
    THEN DifferenceError("None", NpRelErr(a, b), NpAbsDiff(a, b),
                         NpNonzero(NpAbsDiff(a, b)), rt)
    ELSE NoExc

\* assert_equality: the exception it raises, NoExc when it returns.  Its raise
\* statement reads the name rtol, which is neither a parameter nor a global
\* of the module: evaluating it raises NameError before any DifferenceError
\* is built.
assert_equality(a, b) ==
    IF ~NpArrayEqual(a, b) THEN [type |-> "NameError"] ELSE NoExc

\* the field lists of compare_two's four loops
CoordAxes == <<"x1", "x2", "x3">>

Velocities == <<"v1", "v2", "v3">>

Physical == <<"e", "d", "gp">>

\* "  Cannot compare files: {} differs [{} != {}]"
CannotCompareValuesLine(ce) ==
    [kind |-> "CannotCompareValues", var |-> ce.var, value1 |-> ce.value1,
     value2 |-> ce.value2]

\* "  Cannot compare files: {} differs"
CannotCompareLine(var) == [kind |-> "CannotCompare", var |-> var]

\* "  Files do not match: {} differs (max = {})"
NoMatchLine(var, max) == [kind |-> "NoMatch", var |-> var, max |-> max]

\* "Comparing {} with {}"
ComparingLine(p) == [kind |-> "Comparing", pair |-> p]

\* a time check that has the sense of force inverted
TimeMismatchInverted(a, b, f) == a # b /\ f

\* t1 != t2 and not force
TimeMismatch(a, b, f) == a # b /\ ~f

\* a field loop that raises whatever unforgiving is
RaisesAlways(unf) == TRUE

\* if unforgiving: raise DE
Raises(unf) == unf

\* c1.size != c2.size
SizeMismatch(n1, n2) == n1 # n2

\* what the non-raising branch of a field loop prints for the divergence de
Report(de, vb) ==
    <<NoMatchLine(de.var, NpMax(de.rerr))>>
        \o (IF vb THEN showall(de, {}, {}, {}) ELSE <<>>)

\* --------------------------------------------------------- input domains
Numbers == (-1..MaxVal) \cup {NaN}

Const(D, v) == [l \in D |-> v]

\* a, or a with one element replaced
Perturbed1(a) == {a} \cup {[a EXCEPT ![l] = v] : l \in DOMAIN a, v \in Numbers}

Times == {0, 1}

Rtols == {<<0, 1>>, <<1, 2>>}

Atols == {0, 1}

Unset == <<>>


\* ------------------------------------------------------------------- state
VARIABLES
    unforgiving, verbose, force, \* the flags given to compare_output
    rtol, atol,                  \* the tolerances in use
    pair,                        \* compare_output: index of the zip iteration
    pc,                          \* the statement control is at
    axis,                        \* compare_two: position in the current loop
    opened,                      \* the ZeusFile handles that are open
    t1, t2,                      \* compare_two: the two time stamps
    sizes,                       \* sizes seen by the size loop, still to be
                                 \* re-read by the coordinate loop
    c1, c2,                      \* compare_two: the two arrays being compared
    exc,                         \* type of the exception in flight, or "None"
    CE,                          \* the ComparisonError raised
    DE,                          \* the DifferenceError raised
    out,                         \* the lines printed by the last step
    called,                      \* the pairs compare_two was called on
    compared,                    \* comparator calls made for the current pair
    outcome,                     \* what the current pair's comparison found
    iskip, jskip, kskip,         \* the arguments of a direct showall call
    res                          \* the result of a direct comparator call

vars ==
    <<unforgiving, verbose, force, rtol, atol, pair, pc, axis, opened, t1, t2,
      sizes, c1, c2, exc, CE, DE, out, called, compared, outcome, iskip,
      jskip, kskip, res>>

flags == <<unforgiving, verbose, force, rtol, atol>>

direct == <<iskip, jskip, kskip, res>>

F1(p) == <<p, 1>>

F2(p) == <<p, 2>>

\* ------------------------------------------------- compare_output, the driver
Init ==
    /\ unforgiving \in BOOLEAN
    /\ verbose \in BOOLEAN
    /\ force \in BOOLEAN
    /\ rtol = <<1, 2>>
    /\ atol = 0
    /\ pair = 1
    /\ pc = "loop"
    /\ axis = 1
    /\ opened = {}
    /\ t1 = 0
    /\ t2 = 0
    /\ sizes = <<>>
    /\ c1 = Unset
    /\ c2 = Unset
    /\ exc = "None"
    /\ CE = NoExc
    /\ DE = NoExc
    /\ out = <<>>
    /\ called = <<>>
    /\ compared = <<>>
    /\ outcome = "None"
    /\ iskip = {}
    /\ jskip = {}
    /\ kskip = {}
    /\ res = Unset

\* for file1, file2 in zip(...): compare_two(file1, file2, ...), up to its
\* first print
Call ==
    /\ pc = "loop"
    /\ pair <= NPairs
    /\ called' = Append(called, pair)
    /\ out' = <<ComparingLine(pair)>>
    /\ pc' = "open1"
    /\ axis' = 1
    /\ t1' = 0
    /\ t2' = 0
    /\ sizes' = <<>>
    /\ c1' = Unset
    /\ c2' = Unset
    /\ exc' = "None"
    /\ CE' = NoExc
    /\ DE' = NoExc
    /\ compared' = <<>>
    /\ outcome' = "None"
    /\ UNCHANGED <<flags, direct, pair, opened>>

\* the zip is exhausted: compare_output returns
Return ==
    /\ pc = "loop"
    /\ pair > NPairs
    /\ pc' = "done"
    /\ out' = <<>>
    /\ UNCHANGED <<flags, direct, pair, axis, opened, t1, t2, sizes, c1, c2,
                   exc, CE, DE, called, compared, outcome>>

\* ------------------------------------------------------------- compare_two
\* f1 = ZeusFile(file1): outside the try, so a failure leaves compare_two
\* at once
Open1 ==
    /\ pc = "open1"
    /\ \E ok \in BOOLEAN :
          IF ok
          THEN /\ opened' = opened \cup {F1(pair)}
               /\ pc' = "open2"
               /\ UNCHANGED <<exc, outcome>>
          ELSE /\ exc' = "OSError"
               /\ outcome' = "Failure"
               /\ pc' = "crashed"
               /\ UNCHANGED opened
    /\ out' = <<>>
    /\ UNCHANGED <<flags, direct, pair, axis, t1, t2, sizes, c1, c2, CE, DE,
                   called, compared>>

\* f2 = ZeusFile(file2): outside the try as well; f1 is open by now
Open2 ==
    /\ pc = "open2"
    /\ \E ok \in BOOLEAN :
          IF ok
          THEN /\ opened' = opened \cup {F2(pair)}
               /\ pc' = "time"
               /\ UNCHANGED <<exc, outcome>>
          ELSE /\ exc' = "OSError"
               /\ outcome' = "Failure"
               /\ pc' = "crashed"
               /\ UNCHANGED opened
    /\ out' = <<>>
    /\ UNCHANGED <<flags, direct, pair, axis, t1, t2, sizes, c1, c2, CE, DE,
                   called, compared>>

\* a get_dset inside the try fails (the dataset is missing or unreadable):
\* no handler matches, the finally clause runs
ReadFails ==
    /\ pc \in {"time", "sizes", "coords", "vel", "phys"}
    /\ exc' = "KeyError"
    /\ outcome' = "Failure"
    /\ pc' = "finally"
    /\ out' = <<>>
    /\ UNCHANGED <<flags, direct, pair, axis, opened, t1, t2, sizes, c1, c2,
                   CE, DE, called, compared>>

\* the time stamp check
CheckTime ==
    /\ pc = "time"
    /\ \E a \in Times, b \in Times :
          /\ t1' = a
          /\ t2' = b
          /\ IF TimeMismatch(a, b, force)
             THEN /\ CE' = ComparisonError("t", a, b)
                  /\ exc' = "ComparisonError"
                  /\ outcome' = "StructuralMismatch"
                  /\ pc' = "except"
             ELSE /\ pc' = "sizes"
                  /\ UNCHANGED <<CE, exc, outcome>>
    /\ axis' = 1
    /\ out' = <<>>
    /\ UNCHANGED <<flags, direct, pair, opened, sizes, c1, c2, DE, called,
                   compared>>

\* one iteration of the loop that checks the array dimensions
CheckSize ==
    /\ pc = "sizes"
    /\ \E n1 \in 1..MaxN, n2 \in 1..MaxN :
          IF SizeMismatch(n1, n2)
          THEN /\ CE' = ComparisonError(CoordAxes[axis], n1, n2)
               /\ exc' = "ComparisonError"
               /\ outcome' = "StructuralMismatch"
               /\ pc' = "except"
               /\ UNCHANGED <<sizes, axis>>
          ELSE /\ sizes' = Append(sizes, n1)
               /\ pc' = IF axis < Len(CoordAxes) THEN "sizes" ELSE "coords"
               /\ axis' = IF axis < Len(CoordAxes) THEN axis + 1 ELSE 1
               /\ UNCHANGED <<CE, exc, outcome>>
    /\ out' = <<>>
    /\ UNCHANGED <<flags, direct, pair, opened, t1, t2, c1, c2, DE, called,
                   compared>>

\* one iteration of the loop that checks the coordinates
CheckCoord ==
    /\ pc = "coords"
    /\ \E v \in Numbers :
       \E b \in Perturbed1(Const(Locs1(sizes[axis]), v)) :
          LET a == Const(Locs1(sizes[axis]), v)
              r == assert_equality(a, b)
          IN  CASE r.type = "None" ->
                     /\ pc' = IF axis < Len(CoordAxes) THEN "coords" ELSE "vel"
                     /\ axis' = IF axis < Len(CoordAxes) THEN axis + 1 ELSE 1
                     /\ sizes' = IF axis < Len(CoordAxes) THEN sizes ELSE <<>>
                     /\ c1' = Unset
                     /\ c2' = Unset
                     /\ UNCHANGED <<exc, DE, outcome>>
                [] r.type = "DifferenceError" ->
                     \* except DifferenceError as e: e.var = axis; raise e
                     /\ DE' = [r EXCEPT !.var = CoordAxes[axis]]
                     /\ exc' = "DifferenceError"
                     /\ outcome' = "CoordinateDivergence"
                     /\ pc' = "except"
                     /\ c1' = a
                     /\ c2' = b
                     /\ UNCHANGED <<axis, sizes>>
                [] OTHER ->
                     \* no handler of compare_two matches
                     /\ exc' = r.type
                     /\ outcome' = "CoordinateDivergence"
                     /\ pc' = "finally"
                     /\ c1' = a
                     /\ c2' = b
                     /\ UNCHANGED <<axis, sizes, DE>>
    /\ compared' = Append(compared, <<"assert_equality", CoordAxes[axis]>>)
    /\ out' = <<>>
    /\ UNCHANGED <<flags, direct, pair, opened, t1, t2, CE, called>>

\* control leaves iteration `axis` of the loop over `fields` normally
Advance(fields, here, next) ==
    /\ pc' = IF axis < Len(fields) THEN here ELSE next
    /\ axis' = IF axis < Len(fields) THEN axis + 1 ELSE 1
    /\ c1' = Unset
    /\ c2' = Unset

\* one iteration of a loop over tolerance-compared fields
CheckField(fields, here, reported, next) ==
    /\ pc = here
    /\ \E v \in Numbers :
       \E b \in Perturbed1(Const(Grid, v)) :
          LET a == Const(Grid, v)
              r == assert_near_equality(a, b, rtol, 0)
              de == [r EXCEPT !.var = fields[axis]]
          IN  IF r.type = "None"
              THEN /\ Advance(fields, here, next)
                   /\ outcome' = IF pc' = "finally" /\ outcome = "None"
                                 THEN "Match" ELSE outcome
                   /\ out' = <<>>
                   /\ UNCHANGED <<exc, DE>>
              ELSE /\ DE' = de
                   /\ c1' = a
                   /\ c2' = b
                   /\ outcome' = "FieldDivergence"
                   /\ axis' = axis
                   /\ IF Raises(unforgiving)
                      THEN /\ exc' = "DifferenceError"
                           /\ pc' = "except"
                           /\ out' = <<>>
                      ELSE /\ out' = Report(de, verbose)
                           /\ pc' = reported
                           /\ exc' = exc
    /\ compared' = Append(compared, <<"assert_near_equality", fields[axis]>>)
    /\ UNCHANGED <<flags, direct, pair, opened, t1, t2, sizes, CE, called>>

\* the handler of a field loop has printed its report: next iteration
Continue(fields, here, reported, next) ==
    /\ pc = reported
    /\ Advance(fields, here, next)
    /\ DE' = NoExc
    /\ out' = <<>>
    /\ UNCHANGED <<flags, direct, pair, opened, t1, t2, sizes, exc, CE,
                   called, compared, outcome>>

CheckVelocity == CheckField(Velocities, "vel", "vel_reported", "phys")

ContinueVelocity == Continue(Velocities, "vel", "vel_reported", "phys")

CheckPhysical == CheckField(Physical, "phys", "phys_reported", "finally")

ContinuePhysical == Continue(Physical, "phys", "phys_reported", "finally")

\* the except clauses of the outer try
Except ==
    /\ pc = "except"
    /\ CASE exc = "ComparisonError" ->
              /\ out' = <<CannotCompareValuesLine(CE)>>
              /\ exc' = "None"
         [] exc = "DifferenceError" /\ DE.var \in {"x1", "x2", "x3"} ->
              /\ out' = <<CannotCompareLine(DE.var)>>
              /\ exc' = "None"
         [] OTHER ->
              \* DE.diff: DifferenceError has no attribute diff; the
              \* arguments of format are evaluated before anything is printed
              /\ out' = <<>>
              /\ exc' = "AttributeError"
    /\ pc' = "finally"
    /\ UNCHANGED <<flags, direct, pair, axis, opened, t1, t2, sizes, c1, c2,
                   CE, DE, called, compared, outcome>>

\* finally: f1.close(); f2.close(); then return, or the exception in flight
\* leaves compare_two and, compare_output having no handler, the driver.
\* Either way the locals of compare_two are gone.
Finally ==
    /\ pc = "finally"
    /\ opened' = opened \ {F1(pair), F2(pair)}
    /\ IF exc = "None"
       THEN /\ pc' = "loop"
            /\ pair' = pair + 1
       ELSE /\ pc' = "crashed"
            /\ pair' = pair
    /\ out' = <<>>
    /\ axis' = 1
    /\ t1' = 0
    /\ t2' = 0
    /\ sizes' = <<>>
    /\ c1' = Unset
    /\ c2' = Unset
    /\ CE' = NoExc
    /\ DE' = NoExc
    /\ UNCHANGED <<flags, direct, exc, called, compared, outcome>>

Next ==
    \/ Call
    \/ Return
    \/ Open1
    \/ Open2
    \/ ReadFails
    \/ CheckTime
    \/ CheckSize
    \/ CheckCoord
    \/ CheckVelocity
    \/ ContinueVelocity
    \/ CheckPhysical
    \/ ContinuePhysical
    \/ Except
    \/ Finally

Spec == Init /\ [][Next]_vars


\* ------------------------------------------- the comparators, called directly
\* assert_near_equality and assert_equality applied to two arrays a = c1 and
\* b = c2, and to b against itself
InitCmp ==
    /\ unforgiving = TRUE
    /\ verbose = TRUE
    /\ force = FALSE
    /\ rtol \in Rtols
    /\ atol \in Atols
    /\ pair = 1
    /\ pc = "input"
    /\ axis = 1
    /\ opened = {}
    /\ t1 = 0
    /\ t2 = 0
    /\ sizes = <<>>
    /\ \E v \in Numbers :
          /\ c1 = Const(Grid, v)
          /\ c2 \in Perturbed1(Const(Grid, v))
    /\ exc = "None"
    /\ CE = NoExc
    /\ DE = NoExc
    /\ out = <<>>
    /\ called = <<>>
    /\ compared = <<>>
    /\ outcome = "None"
    /\ iskip = {}
    /\ jskip = {}
    /\ kskip = {}
    /\ res = Unset

rest == <<flags, pair, axis, opened, t1, t2, sizes, c1, c2, exc, CE, DE, out,
          called, compared, outcome, iskip, jskip, kskip>>

\* assert_near_equality(a, b, rtol, atol) and assert_near_equality(b, a, ...)
NearCall ==
    /\ pc = "input"
    /\ pc' = "near"
    /\ res' = [ab |-> assert_near_equality(c1, c2, rtol, atol).type,
               ba |-> assert_near_equality(c2, c1, rtol, atol).type]
    /\ UNCHANGED rest

\* assert_equality(a, b) and assert_equality(b, a)
EqCall ==
    /\ pc = "input"
    /\ pc' = "eq"
    /\ res' = [ab |-> assert_equality(c1, c2).type,
               ba |-> assert_equality(c2, c1).type]
    /\ UNCHANGED rest

\* assert_near_equality(b, b, rtol, atol) and assert_equality(b, b)
SelfCall ==
    /\ pc = "input"
    /\ pc' = "self"
    /\ res' = [near |-> assert_near_equality(c2, c2, rtol, atol).type,
               eq |-> assert_equality(c2, c2).type]
    /\ UNCHANGED rest

NextCmp == NearCall \/ EqCall \/ SelfCall

SpecCmp == InitCmp /\ [][NextCmp]_vars

\* ------------------------------------------------- showall, called directly
\* a DifferenceError raised by assert_near_equality, then
\* DE.showall(iskip, jskip, kskip)
InitShow ==
    /\ unforgiving = TRUE
    /\ verbose = TRUE
    /\ force = FALSE
    /\ rtol \in Rtols
    /\ atol = 0
    /\ pair = 1
    /\ pc = "raised"
    /\ axis = 1
    /\ opened = {}
    /\ t1 = 0
    /\ t2 = 0
    /\ sizes = <<>>
    /\ \E v \in Numbers, w \in Numbers :
          /\ c1 = Const(Grid, v)
          /\ c2 \in Perturbed1(Const(Grid, w))
    /\ assert_near_equality(c1, c2, rtol, atol).type = "DifferenceError"
    /\ DE = assert_near_equality(c1, c2, rtol, atol)
    /\ exc = "None"
    /\ CE = NoExc
    /\ out = <<>>
    /\ called = <<>>
    /\ compared = <<>>
    /\ outcome = "None"
    /\ iskip \in SUBSET (0..(NI - 1))
    /\ jskip \in {{}, {0}}
    /\ kskip \in {{}, {0}}
    /\ res = Unset

ShowAll ==
    /\ pc = "raised"
    /\ pc' = "shown"
    /\ out' = showall(DE, iskip, jskip, kskip)
    /\ UNCHANGED <<flags, direct, pair, axis, opened, t1, t2, sizes, c1, c2,
                   exc, CE, DE, called, compared, outcome>>

NextShow == ShowAll

SpecShow == InitShow /\ [][NextShow]_vars


\* ------------------------------------------------------------- properties
\* the comparator calls of a complete comparison, in the order of the code
FullOrder ==
    [n \in 1..Len(CoordAxes) |-> <<"assert_equality", CoordAxes[n]>>]
        \o [n \in 1..Len(Velocities) |-> <<"assert_near_equality", Velocities[n]>>]
        \o [n \in 1..Len(Physical) |-> <<"assert_near_equality", Physical[n]>>]

IsPrefix(s, t) == Len(s) <= Len(t) /\ \A n \in 1..Len(s) : s[n] = t[n]

\* a field loop has just printed its report of a divergence
Reported == pc \in {"vel_reported", "phys_reported"}

\* the field that report is about
ReportedField ==
    IF pc = "vel_reported" THEN Velocities[axis] ELSE Physical[axis]

\* |x - y| / |x + y| > rt, computed on the two numbers
RelExceeds(x, y, rt) ==
    /\ x # NaN
    /\ y # NaN
    /\ x # y
    /\ Abs(x - y) * rt[2] > rt[1] * Abs(x + y)

\* x and y are different values (a nan differs from everything)
Differ(x, y) == x = NaN \/ y = NaN \/ x # y

\* the <<k, j, i>> of a printed location line
LineLoc(line) == <<line.k, line.j, line.i>>

\* the printed lines that are location lines
LocLines(lines) == SelectSeq(lines, LAMBDA ln : ln.kind = "Loc")

\* C1: with unforgiving set, a diverging v1..gp ends the pair at once and the
\* pair's report is 'Files do not match: <field> differs' for that field,
\* with no other failure.
C1_FieldDivergenceReported ==
    (pc = "finally" /\ unforgiving /\ outcome = "FieldDivergence")
        => /\ exc = "None"
           /\ Len(out) >= 1
           /\ out[1].kind = "NoMatch"
           /\ out[1].var = DE.var

\* C2: a coordinate array that differs ends the pair with the report
\* 'Cannot compare files: <axis> differs' for the first differing axis, with
\* no location line and no field compared, whatever unforgiving is.
C2_CoordinateDivergenceReported ==
    (pc = "finally" /\ outcome = "CoordinateDivergence")
        => /\ exc = "None"
           /\ out = <<CannotCompareLine(CoordAxes[axis])>>
           /\ \A n \in 1..Len(compared) : compared[n][1] = "assert_equality"

\* C3: whatever a pair's comparison finds (match, structural mismatch,
\* coordinate divergence, field divergence), compare_output goes on to the
\* next pair, so that it ends having called compare_two on every pair.
C3_DriverProceeds ==
    (/\ pc \in {"done", "crashed"}
     /\ outcome \in {"Match", "StructuralMismatch", "CoordinateDivergence",
                     "FieldDivergence"})
        => called = [n \in 1..NPairs |-> n]

\* C4: when compare_two has been left, on whatever path, no handle it opened
\* is still open.
C4_HandlesClosed ==
    (pc \in {"loop", "done", "crashed"}) => opened = {}

\* C5: the structural checks come first: a time stamp that differs (force
\* unset) or an axis size that differs gives a structural mismatch that names
\* the first failing check of t, x1, x2, x3 with both values, and no
\* comparator is called for the pair, whatever unforgiving is.
C5_StructuralFirst ==
    /\ (outcome = "StructuralMismatch") => compared = <<>>
    /\ (pc = "finally" /\ outcome = "StructuralMismatch")
          => /\ exc = "None"
             /\ out = <<[kind |-> "CannotCompareValues", var |-> CE.var,
                         value1 |-> CE.value1, value2 |-> CE.value2]>>
             /\ IF CE.var = "t"
                THEN /\ CE.value1 = t1
                     /\ CE.value2 = t2
                     /\ t1 # t2
                     /\ ~force
                ELSE /\ CE.var = CoordAxes[axis]
                     /\ CE.value1 # CE.value2
                     /\ Len(sizes) = axis - 1
                     /\ (t1 = t2 \/ force)
    /\ (pc \in {"sizes", "coords", "vel", "phys"} \/ compared # <<>>)
          => (t1 = t2 \/ force)
    /\ (pc = "coords") => Len(sizes) = Len(CoordAxes)

C5_Witness ==
    /\ pc = "finally"
    /\ outcome = "StructuralMismatch"
    /\ CE.var = "x2"
    /\ unforgiving
    /\ compared = <<>>
    /\ Len(out) = 1

\* C6: with unforgiving unset, the tolerant comparator runs on v1, v2, v3, e,
\* d, gp once each and in that order whatever the earlier fields gave: a
\* divergence is handled where it arises, prints exactly one summary line for
\* its field, and the fields after it are still compared.
C6_SurveyAllFields ==
    ~unforgiving
        => /\ exc \notin {"DifferenceError", "AttributeError"}
           /\ IsPrefix(compared, FullOrder)
           /\ Reported
                 => /\ compared[Len(compared)]
                          = <<"assert_near_equality", ReportedField>>
                    /\ Len(SelectSeq(out, LAMBDA ln : ln.kind = "NoMatch")) = 1
                    /\ out[1].kind = "NoMatch"
                    /\ out[1].var = ReportedField
           /\ (pc = "finally" /\ outcome \in {"Match", "FieldDivergence"})
                 => compared = FullOrder

C6_Witness ==
    /\ ~unforgiving
    /\ pc = "finally"
    /\ exc = "None"
    /\ outcome = "FieldDivergence"
    /\ compared = FullOrder

\* the arrays differ in one cell only, there by 2 * rtol relative to a
DiffersBy2Rtol(a, b, rt) ==
    /\ Cardinality({l \in DOMAIN a : Differ(a[l], b[l])}) = 1
    /\ \A l \in DOMAIN a :
          Differ(a[l], b[l])
              => /\ a[l] # NaN
                 /\ b[l] # NaN
                 /\ rt[2] * Abs(a[l] - b[l]) = 2 * rt[1] * Abs(a[l])

\* C7 as stated: two datasets that differ in one velocity component by exactly
\* 2 * rtol, unforgiving unset and verbose set: a summary line with the
\* largest relative error is printed and then one line for every location
\* where the two arrays differ.
C7_LinePerDifference ==
    (/\ pc = "vel_reported"
     /\ ~unforgiving
     /\ verbose
     /\ DiffersBy2Rtol(c1, c2, rtol))
        => /\ out[1] = NoMatchLine(Velocities[axis], NpMax(NpRelErr(c1, c2)))
           /\ Len(LocLines(out))
                 = Cardinality({l \in Grid : Differ(c1[l], c2[l])})

\* C7 amended: with unforgiving unset and verbose set, a diverging field
\* prints a summary line with the largest relative error and then one line
\* for every location where the arrays differ and |a-b|/|a+b| > rtol, in scan
\* order, and no other line.
C7_LinePerExceedingDifference ==
    (Reported /\ ~unforgiving /\ verbose)
        => /\ out[1] = NoMatchLine(ReportedField, NpMax(NpRelErr(c1, c2)))
           /\ [n \in 1..(Len(out) - 1) |-> LineLoc(out[n + 1])]
                 = SelectSeq(GridSeq,
                       LAMBDA l : /\ Differ(c1[l], c2[l])
                                  /\ RelExceeds(c1[l], c2[l], rtol))
           /\ \A n \in 2..Len(out) : out[n].kind = "Loc"

C7_Witness ==
    /\ pc = "vel_reported"
    /\ ~unforgiving
    /\ verbose
    /\ DiffersBy2Rtol(c1, c2, rtol)
    /\ Len(out) = 2
    /\ out[2].kind = "Loc"

\* |x - y| <= atol + rtol * |y| and |x - y| <= atol + rtol * |x|
BothClose(x, y, rt, at) ==
    /\ x # NaN
    /\ y # NaN
    /\ rt[2] * Abs(x - y) <= rt[2] * at + rt[1] * Abs(y)
    /\ rt[2] * Abs(x - y) <= rt[2] * at + rt[1] * Abs(x)

\* C8: assert_near_equality(a, b, rtol, atol) returns if and only if every
\* element pair is close in both directions, and so it returns for (a, b)
\* exactly when it returns for (b, a).
C8_NearSymmetric ==
    (pc = "near")
        => /\ (res.ab = "None")
                 <=> \A l \in Grid : BothClose(c1[l], c2[l], rtol, atol)
           /\ (res.ab = "None") <=> (res.ba = "None")
           /\ res.ab \in {"None", "DifferenceError"}

C8_Witness ==
    /\ pc = "near"
    /\ res.ab = "DifferenceError"
    /\ NpAllClose(c1, c2, rtol, atol)
    /\ ~NpAllClose(c2, c1, rtol, atol)

\* C9 as stated: an array compared with itself matches under both
\* comparators, whatever its elements and whatever rtol >= 0 and atol >= 0.
C9_SelfMatch ==
    (pc = "self") => (res.near = "None" /\ res.eq = "None")

\* C9 amended: an array none of whose elements is a nan matches itself under
\* both comparators, whatever rtol >= 0 and atol >= 0.
C9_SelfMatchNoNaN ==
    (pc = "self" /\ \A l \in Grid : c2[l] # NaN)
        => (res.near = "None" /\ res.eq = "None")

C9_Witness ==
    /\ pc = "self"
    /\ \A l \in Grid : c2[l] # NaN
    /\ \E l \in Grid, m \in Grid : c2[l] # c2[m] /\ c2[l] = 0
    /\ rtol = <<0, 1>>
    /\ atol = 0
    /\ res.near = "None"
    /\ res.eq = "None"

\* the position of x in the sequence s
PosIn(s, x) == CHOOSE n \in 1..Len(s) : s[n] = x

\* C10: showall(iskip, jskip, kskip) prints a line for exactly the mismatch
\* locations (k, j, i) with i not in iskip, j not in jskip, k not in kskip and
\* a relative error above the tolerance, in the order of the mismatch
\* locations; the divergence is left as it was, its locations being every
\* cell where the arrays differ, skipped or not.
C10_ShowallFilter ==
    (pc = "shown")
        => LET shown == {l \in Grid :
                            /\ Differ(c1[l], c2[l])
                            /\ l[3] \notin iskip
                            /\ l[2] \notin jskip
                            /\ l[1] \notin kskip
                            /\ RelExceeds(c1[l], c2[l], rtol)}
           IN  /\ Len(out) = Cardinality(shown)
               /\ {LineLoc(out[n]) : n \in 1..Len(out)} = shown
               /\ \A n \in 1..Len(out) :
                     /\ out[n].rerr = DE.rerr[LineLoc(out[n])]
                     /\ out[n].aerr = DE.aerr[LineLoc(out[n])]
               /\ \A n \in 1..Len(out), m \in 1..Len(out) :
                     n < m => PosIn(DE.locs, LineLoc(out[n]))
                                  < PosIn(DE.locs, LineLoc(out[m]))
               /\ DE = assert_near_equality(c1, c2, rtol, atol)
               /\ {DE.locs[n] : n \in 1..Len(DE.locs)}
                     = {l \in Grid : Differ(c1[l], c2[l])}

C10_Witness ==
    /\ pc = "shown"
    /\ iskip = {0}
    /\ jskip = {}
    /\ kskip = {}
    /\ Len(out) >= 1
    /\ \E n \in 1..Len(DE.locs) :
          /\ DE.locs[n][3] = 0
          /\ RelExceeds(c1[DE.locs[n]], c2[DE.locs[n]], rtol)

====
